---- MODULE Spec2Model ----
(***************************************************************************)
(* TransactionManager (src/transaction_manager.py) and the delete_investment*)
(* tool (src/finance_agent.py): the transaction store, the investment store,*)
(* their two CSV files, and the derived queries.                            *)
(*                                                                          *)
(* Representation.  Money and quantities are integers.  A calendar date is  *)
(* the number of its day in a non-leap year (1 is January 1, 32 is February *)
(* 1).  A date STRING given by a caller is [kind, day]: kind                *)
(* "ymd" is text of the form YYYY-MM-DD, "bad" is text strptime rejects,    *)
(* "none" is Python's None.  A description is a tuple (<<>> is "").         *)
(* A DataFrame is the sequence of its rows.                                 *)
(***************************************************************************)
EXTENDS Integers, Sequences, FiniteSets, TLC

VARIABLES
    transactions,   \* self.transactions: rows of the in-memory transaction store
    investments,    \* self.investments: rows of the in-memory investment store
    txFile,         \* transactions.csv: [exists, rows]
    invFile,        \* investments.csv: [exists, rows]
    call            \* the last operation: [op, args, ret, ...]

vars == <<transactions, investments, txFile, invFile, call>>

----------------------------------------------------------------------------
(* Bounds *)

MaxTx == 2
MaxInv == 2
MaxListTx == 11
MaxFileRows == 2

----------------------------------------------------------------------------
(* Inputs *)

NoDate == [kind |-> "none", day |-> 0]
BadDate == [kind |-> "bad", day |-> 0]
Ymd(d) == [kind |-> "ymd", day |-> d]

\* the calendar days datetime.now() reports
Clock == {1}

\* actual arguments of add_transaction
TxInputs ==
    { [transaction_type |-> "income",   category |-> "Salary", amount |-> 3,
       description |-> <<>>, date |-> NoDate, payment_method |-> "Card"],
      [transaction_type |-> "Expense",  category |-> "Food",   amount |-> -2,
       description |-> <<>>, date |-> Ymd(2), payment_method |-> "Cash"],
      [transaction_type |-> "Expense",  category |-> "Food",   amount |-> 2,
       description |-> <<>>, date |-> Ymd(2), payment_method |-> "Cash"],
      [transaction_type |-> "transfer", category |-> "Food",   amount |-> 2,
       description |-> <<>>, date |-> Ymd(1), payment_method |-> "Cash"],
      [transaction_type |-> "income",   category |-> "Salary", amount |-> 3,
       description |-> <<>>, date |-> BadDate, payment_method |-> "Cash"] }

\* the same, with an expense of amount zero dated in the following month, for
\* the stores the queries are asked about
QueryTxInputs ==
    TxInputs \cup
    { [transaction_type |-> "expense",  category |-> "Rent",   amount |-> 0,
       description |-> <<>>, date |-> Ymd(32), payment_method |-> "Cash"] }

\* actual arguments of add_investment
InvInputs ==
    { [symbol |-> " aapl ", quantity |-> 2,  purchase_price |-> 5, purchase_date |-> Ymd(1)],
      [symbol |-> "MSFT",   quantity |-> -2, purchase_price |-> 5, purchase_date |-> NoDate],
      [symbol |-> "AAPL",   quantity |-> 2,  purchase_price |-> 5, purchase_date |-> BadDate] }

\* the same, with a lot that cancels the quantity of another lot of its symbol,
\* for the stores the queries are asked about
QueryInvInputs ==
    InvInputs \cup
    { [symbol |-> "AAPL",   quantity |-> -2, purchase_price |-> 5, purchase_date |-> Ymd(1)],
      [symbol |-> "msft",   quantity |-> 1,  purchase_price |-> 7, purchase_date |-> NoDate] }

SymbolInputs == {" aapl ", "MSFT", "TSLA"}

\* what a CSV write does: it succeeds, or it fails before the file is opened
\* (kept = -1: the file is as it was) or after `kept` rows have reached the file
WriteOk == [ok |-> TRUE, kept |-> 0]
WriteFail(k) == [ok |-> FALSE, kept |-> k]
WriteOutcomes(n) == {WriteOk} \cup {WriteFail(k) : k \in -1 .. (n - 1)}

----------------------------------------------------------------------------
(* str methods and date conversions *)

\* str.lower()
Lower(s) ==
    CASE s = "Expense" -> "expense"
      [] s = "Income" -> "income"
      [] s = "EXPENSE" -> "expense"
      [] OTHER -> s

\* str.upper().strip()
UpperStrip(s) ==
    CASE s = " aapl " -> "AAPL"
      [] s = "aapl" -> "AAPL"
      [] s = "msft" -> "MSFT"
      [] s = "tsla" -> "TSLA"
      [] OTHER -> s

\* datetime.strptime(date, '%Y-%m-%d') raises ValueError
StrptimeFails(date) == date.kind = "bad"

\* pd.to_datetime(date) of YYYY-MM-DD text: the day, at midnight
ToDatetime(date) == date.day

\* Series.dt.strftime('%Y-%m-%d %H:%M:%S') of a stored date
Strftime(d) == [kind |-> "ymd_hms", day |-> d, time |-> "00:00:00"]

Abs(x) == IF x < 0 THEN -x ELSE x

\* abs(float(amount)) with the sign test dropped: the amount as given
AmountAsGiven(amount) == amount

\* abs(float(amount))
AbsAmount(amount) == IF amount < 0 THEN -amount ELSE amount

----------------------------------------------------------------------------
(* Persistence *)

Missing == [exists |-> FALSE, rows |-> <<>>]

\* the float nan that read_csv puts where a field is empty; it is no text
NaNValue == <<[float |-> "nan"]>>

\* a description as to_csv writes it: nan is written as the empty field
WriteText(v) == IF v = NaNValue THEN <<>> ELSE v

\* a description field as read_csv reads it: the empty field is nan
ReadText(v) == IF v = <<>> THEN NaNValue ELSE v

\* pd.to_datetime(column, errors='coerce') of a field of the file is NaT
IsNaT(field) == field.kind \notin {"ymd", "ymd_hms"}

\* the rows df.to_csv writes for the transaction store
TxRows(txs) ==
    [i \in 1 .. Len(txs) |->
        [txs[i] EXCEPT !.date = Strftime(txs[i].date),
                       !.description = WriteText(txs[i].description)]]

\* the rows df.to_csv writes for the investment store
InvRows(invs) ==
    [i \in 1 .. Len(invs) |-> [invs[i] EXCEPT !.purchase_date = Strftime(invs[i].purchase_date)]]

\* a write that adds the last row to the rows the file already holds
WriteCsvAppends(old, rows, w) ==
    IF w.ok
        THEN [exists |-> TRUE,
              rows |-> IF rows = <<>> THEN old.rows ELSE Append(old.rows, rows[Len(rows)])]
    ELSE IF w.kept < 0 THEN old
    ELSE [exists |-> TRUE, rows |-> SubSeq(rows, 1, w.kept)]

\* the file after to_csv(rows) with outcome w
WriteCsv(old, rows, w) ==
    IF w.ok THEN [exists |-> TRUE, rows |-> rows]
    ELSE IF w.kept < 0 THEN old
    ELSE [exists |-> TRUE, rows |-> SubSeq(rows, 1, w.kept)]

save_transactions(old, txs, w) == WriteCsv(old, TxRows(txs), w)

save_investments(old, invs, w) == WriteCsv(old, InvRows(invs), w)

\* a file that pd.read_csv cannot read as a table with the date column
Unreadable == [exists |-> TRUE, rows |-> <<>>, unreadable |-> TRUE]

\* the format pd.to_datetime settles on for a column: "each" when every element
\* is parsed by itself (pandas before 2.0, or no format can be guessed from the
\* first element), otherwise the format of the first element (pandas 2.0 on)
ColumnFormat(dates, by_first) ==
    IF by_first /\ dates # <<>> /\ ~IsNaT(dates[1]) THEN dates[1].kind ELSE "each"

\* pd.to_datetime(column, errors='coerce') is NaT at a field of a column parsed
\* with the given format
IsNaTIn(field, format) ==
    IF format = "each" THEN IsNaT(field) ELSE field.kind # format

\* TransactionManager._load_transactions: the store read from transactions.csv
load_transactions(file, by_first) ==
    LET format == ColumnFormat([i \in 1 .. Len(file.rows) |-> file.rows[i].date], by_first)
        Parsed(r) == ~IsNaTIn(r.date, format)
        rows == SelectSeq(file.rows, Parsed)
    IN  IF ~file.exists THEN <<>>
        ELSE IF "unreadable" \in DOMAIN file THEN <<>>
        ELSE [i \in 1 .. Len(rows) |->
                 [rows[i] EXCEPT !.date = ToDatetime(rows[i].date),
                                 !.description = ReadText(rows[i].description)]]

\* TransactionManager._load_investments: the store read from investments.csv
load_investments(file, by_first) ==
    LET format == ColumnFormat([i \in 1 .. Len(file.rows) |-> file.rows[i].purchase_date],
                               by_first)
        Parsed(r) == ~IsNaTIn(r.purchase_date, format)
        rows == SelectSeq(file.rows, Parsed)
    IN  IF ~file.exists THEN <<>>
        ELSE IF "unreadable" \in DOMAIN file THEN <<>>
        ELSE [i \in 1 .. Len(rows) |-> [rows[i] EXCEPT !.purchase_date = ToDatetime(rows[i].purchase_date)]]

----------------------------------------------------------------------------
(* Mutating operations, as functions of the state they read *)

RECURSIVE MaxId(_)
MaxId(rows) ==
    IF rows = <<>> THEN 0
    ELSE LET m == MaxId(Tail(rows)) IN IF rows[1].id > m THEN rows[1].id ELSE m

\* add_transaction numbering the new record one above the largest id in the
\* store
AddTransactionNextFreeId(txs, file, a, today, w) ==
    LET transaction_type == Lower(a.transaction_type)
        date == IF a.date.kind = "none" THEN Ymd(today) ELSE a.date
        new_transaction ==
            [id |-> MaxId(txs) + 1, date |-> ToDatetime(date), type |-> transaction_type,
             category |-> a.category, amount |-> AbsAmount(a.amount),
             description |-> a.description, payment_method |-> a.payment_method]
        appended == Append(txs, new_transaction)
    IN  IF transaction_type \notin {"income", "expense"}
            THEN [transactions |-> txs, file |-> file, ret |-> "error_type", wrote |-> FALSE]
        ELSE IF a.date.kind # "none" /\ StrptimeFails(a.date)
            THEN [transactions |-> txs, file |-> file, ret |-> "error_invalid_input",
                  wrote |-> FALSE]
        ELSE [transactions |-> appended,
              file |-> save_transactions(file, appended, w),
              ret |-> IF w.ok THEN "ok" ELSE "error_adding",
              wrote |-> TRUE]

\* add_transaction checking the date only after the record is in the store
AddTransactionValidatesLate(txs, file, a, today, w) ==
    LET transaction_type == Lower(a.transaction_type)
        date == IF a.date.kind = "none" THEN Ymd(today) ELSE a.date
        new_transaction ==
            [id |-> Len(txs) + 1, date |-> ToDatetime(date), type |-> transaction_type,
             category |-> a.category, amount |-> AbsAmount(a.amount),
             description |-> a.description, payment_method |-> a.payment_method]
        appended == Append(txs, new_transaction)
    IN  IF transaction_type \notin {"income", "expense"}
            THEN [transactions |-> txs, file |-> file, ret |-> "error_type", wrote |-> FALSE]
        ELSE IF a.date.kind # "none" /\ StrptimeFails(a.date)
            THEN [transactions |-> appended, file |-> file, ret |-> "error_invalid_input",
                  wrote |-> FALSE]
        ELSE [transactions |-> appended,
              file |-> save_transactions(file, appended, w),
              ret |-> IF w.ok THEN "ok" ELSE "error_adding",
              wrote |-> TRUE]

\* add_transaction taking the record out of the store again when the write fails
AddTransactionRollsBack(txs, file, a, today, w) ==
    LET transaction_type == Lower(a.transaction_type)
        date == IF a.date.kind = "none" THEN Ymd(today) ELSE a.date
        new_transaction ==
            [id |-> Len(txs) + 1, date |-> ToDatetime(date), type |-> transaction_type,
             category |-> a.category, amount |-> AbsAmount(a.amount),
             description |-> a.description, payment_method |-> a.payment_method]
        appended == Append(txs, new_transaction)
    IN  IF transaction_type \notin {"income", "expense"}
            THEN [transactions |-> txs, file |-> file, ret |-> "error_type", wrote |-> FALSE]
        ELSE IF a.date.kind # "none" /\ StrptimeFails(a.date)
            THEN [transactions |-> txs, file |-> file, ret |-> "error_invalid_input",
                  wrote |-> FALSE]
        ELSE [transactions |-> IF w.ok THEN appended ELSE txs,
              file |-> save_transactions(file, appended, w),
              ret |-> IF w.ok THEN "ok" ELSE "error_adding",
              wrote |-> TRUE]

\* TransactionManager.add_transaction: the new store, file and result
AddTransaction(txs, file, a, today, w) ==
    LET transaction_type == Lower(a.transaction_type)
        amount == AbsAmount(a.amount)
        date == IF a.date.kind = "none" THEN Ymd(today) ELSE a.date
        transaction_id == Len(txs) + 1
        new_transaction ==
            [id |-> transaction_id, date |-> ToDatetime(date), type |-> transaction_type,
             category |-> a.category, amount |-> amount,
             description |-> a.description, payment_method |-> a.payment_method]
        appended == Append(txs, new_transaction)
    IN  IF transaction_type \notin {"income", "expense"}
            THEN [transactions |-> txs, file |-> file, ret |-> "error_type", wrote |-> FALSE]
        ELSE IF a.date.kind # "none" /\ StrptimeFails(a.date)
            THEN [transactions |-> txs, file |-> file, ret |-> "error_invalid_input",
                  wrote |-> FALSE]
        ELSE [transactions |-> appended,
              file |-> save_transactions(file, appended, w),
              ret |-> IF w.ok THEN "ok" ELSE "error_adding",
              wrote |-> TRUE]

\* delete_transaction with the file rewritten whether or not a row was removed
DeleteTransactionAlwaysSaves(txs, file, transaction_id, w) ==
    LET Keep(r) == r.id # transaction_id
        kept == SelectSeq(txs, Keep)
    IN  [transactions |-> kept,
         file |-> save_transactions(file, kept, w),
         ret |-> IF ~w.ok THEN "error_deleting"
                 ELSE IF Len(kept) < Len(txs) THEN "ok" ELSE "not_found",
         wrote |-> TRUE]

\* TransactionManager.delete_transaction
DeleteTransaction(txs, file, transaction_id, w) ==
    LET Keep(r) == r.id # transaction_id
        kept == SelectSeq(txs, Keep)
    IN  IF Len(kept) < Len(txs)
            THEN [transactions |-> kept,
                  file |-> save_transactions(file, kept, w),
                  ret |-> IF w.ok THEN "ok" ELSE "error_deleting",
                  wrote |-> TRUE]
        ELSE [transactions |-> kept, file |-> file, ret |-> "not_found", wrote |-> FALSE]

\* the description add_investment gives the linked expense:
\* f"Purchased {quantity} shares of {symbol} at ${purchase_price:.2f}"
PurchaseDescription(quantity, symbol, purchase_price) ==
    <<"Purchased", quantity, "shares of", symbol, "at", purchase_price>>

\* TransactionManager.add_investment: both stores, both files and the result.
\* w1 is the outcome of the investments.csv write, w2 of the nested
\* add_transaction's transactions.csv write.
AddInvestment(invs, invf, txs, txf, a, today, w1, w2) ==
    LET purchase_date == IF a.purchase_date.kind = "none" THEN Ymd(today) ELSE a.purchase_date
        symbol == UpperStrip(a.symbol)
        quantity == a.quantity
        purchase_price == a.purchase_price
        total_cost == quantity * purchase_price
        investment_id == Len(invs) + 1
        new_investment ==
            [id |-> investment_id, symbol |-> symbol, quantity |-> quantity,
             purchase_price |-> purchase_price,
             purchase_date |-> ToDatetime(purchase_date), total_cost |-> total_cost]
        appended == Append(invs, new_investment)
        nested == AddTransaction(txs, txf,
                     [transaction_type |-> "expense", category |-> "Investment Purchase",
                      amount |-> total_cost,
                      description |-> PurchaseDescription(quantity, symbol, purchase_price),
                      date |-> purchase_date, payment_method |-> "Cash"],
                     today, w2)
    IN  IF a.purchase_date.kind # "none" /\ StrptimeFails(a.purchase_date)
            THEN [investments |-> invs, invFile |-> invf, transactions |-> txs,
                  txFile |-> txf, ret |-> "error_adding", nested |-> "not_called",
                  wrote |-> 0]
        ELSE IF ~w1.ok
            THEN [investments |-> appended,
                  invFile |-> save_investments(invf, appended, w1),
                  transactions |-> txs, txFile |-> txf,
                  ret |-> "error_adding", nested |-> "not_called", wrote |-> 1]
        ELSE [investments |-> appended,
              invFile |-> save_investments(invf, appended, w1),
              transactions |-> nested.transactions, txFile |-> nested.file,
              ret |-> "ok", nested |-> nested.ret, wrote |-> 2]

\* delete_investment comparing the stored symbols with the argument as given
DeleteInvestmentRawSymbol(invs, invf, symbolArg, w) ==
    LET Keep(r) == r.symbol # symbolArg
        kept == SelectSeq(invs, Keep)
        removed_count == Len(invs) - Len(kept)
    IN  IF removed_count > 0
            THEN [investments |-> kept,
                  invFile |-> save_investments(invf, kept, w),
                  ret |-> IF w.ok THEN "ok" ELSE "error_deleting",
                  removed_count |-> removed_count, wrote |-> TRUE]
        ELSE [investments |-> kept, invFile |-> invf, ret |-> "none_found",
              removed_count |-> 0, wrote |-> FALSE]

\* delete_investment (the agent tool): filters the manager's investment store
DeleteInvestment(invs, invf, symbolArg, w) ==
    LET symbol == UpperStrip(symbolArg)
        Keep(r) == r.symbol # symbol
        kept == SelectSeq(invs, Keep)
        removed_count == Len(invs) - Len(kept)
    IN  IF removed_count > 0
            THEN [investments |-> kept,
                  invFile |-> save_investments(invf, kept, w),
                  ret |-> IF w.ok THEN "ok" ELSE "error_deleting",
                  removed_count |-> removed_count, wrote |-> TRUE]
        ELSE [investments |-> kept, invFile |-> invf, ret |-> "none_found",
              removed_count |-> 0, wrote |-> FALSE]

----------------------------------------------------------------------------
(* Numbers of the valuation: a float is the fraction [n, d] in lowest terms *)
(* with d > 0; d = 0 is a non-finite float (n = 1: inf, -1: -inf, 0: nan).   *)

Sign(x) == IF x > 0 THEN 1 ELSE IF x < 0 THEN -1 ELSE 0

RECURSIVE Gcd(_, _)
Gcd(a, b) == IF b = 0 THEN a ELSE Gcd(b, a % b)

Norm(n, d) ==
    IF d = 0 THEN [n |-> Sign(n), d |-> 0]
    ELSE LET g == Gcd(Abs(n), Abs(d))
         IN  [n |-> Sign(d) * (n \div g), d |-> Abs(d) \div g]

Num(x) == [n |-> x, d |-> 1]
NaN == [n |-> 0, d |-> 0]
IsFinite(a) == a.d # 0

FMul(a, b) == Norm(a.n * b.n, a.d * b.d)
FDiv(a, b) == IF IsFinite(b) THEN Norm(a.n * b.d, a.d * b.n)
              ELSE IF IsFinite(a) /\ b.n # 0 THEN Num(0) ELSE NaN
FSub(a, b) == Norm(a.n * b.d - b.n * a.d, a.d * b.d)
FAdd(a, b) == IF ~IsFinite(a) /\ ~IsFinite(b)
                  THEN (IF a.n = b.n THEN a ELSE NaN)
              ELSE Norm(a.n * b.d + b.n * a.d, a.d * b.d)
FPositive(a) == a.n > 0

\* n / d rounded to the nearest integer, ties to even (n >= 0, d > 0)
RoundDiv(n, d) ==
    LET q == n \div d
        r == n % d
    IN  IF 2 * r < d THEN q
        ELSE IF 2 * r > d THEN q + 1
        ELSE IF q % 2 = 0 THEN q ELSE q + 1

----------------------------------------------------------------------------
(* Queries *)

\* an optional str argument that was not given (None; "" is falsy too)
NoStr == ""

\* the limit get_summary and get_spending_by_category pass to get_transactions
SummaryLimit == 999999

\* the value of get_transactions' limit parameter when the caller gives none
DefaultLimit == 10

\* DataFrame.head(n)
HeadRows(rows, n) ==
    IF n >= 0 THEN SubSeq(rows, 1, IF n < Len(rows) THEN n ELSE Len(rows))
    ELSE SubSeq(rows, 1, IF Len(rows) + n > 0 THEN Len(rows) + n ELSE 0)

RemoveAt(rows, i) == SubSeq(rows, 1, i - 1) \o SubSeq(rows, i + 1, Len(rows))

\* df.sort_values('date', ascending=False); rows of one date keep their order
RECURSIVE SortByDateDesc(_)
SortByDateDesc(rows) ==
    IF rows = <<>> THEN <<>>
    ELSE LET latest == CHOOSE i \in 1 .. Len(rows) :
                          /\ \A j \in 1 .. Len(rows) : rows[j].date <= rows[i].date
                          /\ \A j \in 1 .. (i - 1) : rows[j].date < rows[i].date
         IN  <<rows[latest]>> \o SortByDateDesc(RemoveAt(rows, latest))

\* get_transactions cutting the filtered rows to `limit` before sorting them
get_transactions_head_first(txs, transaction_type, category, start_date, end_date, limit) ==
    LET ByType(r) == r.type = Lower(transaction_type)
        ByCategory(r) == r.category = category
        FromStart(r) == r.date >= ToDatetime(start_date)
        ToEnd(r) == r.date <= ToDatetime(end_date)
        df1 == IF transaction_type # NoStr THEN SelectSeq(txs, ByType) ELSE txs
        df2 == IF category # NoStr THEN SelectSeq(df1, ByCategory) ELSE df1
        df3 == IF start_date.kind # "none" THEN SelectSeq(df2, FromStart) ELSE df2
        df4 == IF end_date.kind # "none" THEN SelectSeq(df3, ToEnd) ELSE df3
    IN  IF Len(txs) = 0 THEN txs
        ELSE SortByDateDesc(HeadRows(df4, limit))

\* TransactionManager.get_transactions
get_transactions(txs, transaction_type, category, start_date, end_date, limit) ==
    LET ByType(r) == r.type = Lower(transaction_type)
        ByCategory(r) == r.category = category
        FromStart(r) == r.date >= ToDatetime(start_date)
        ToEnd(r) == r.date <= ToDatetime(end_date)
        df1 == IF transaction_type # NoStr THEN SelectSeq(txs, ByType) ELSE txs
        df2 == IF category # NoStr THEN SelectSeq(df1, ByCategory) ELSE df1
        df3 == IF start_date.kind # "none" THEN SelectSeq(df2, FromStart) ELSE df2
        df4 == IF end_date.kind # "none" THEN SelectSeq(df3, ToEnd) ELSE df3
    IN  IF Len(txs) = 0 THEN txs
        ELSE HeadRows(SortByDateDesc(df4), limit)

\* Series.sum() of the amount column
RECURSIVE SumAmount(_)
SumAmount(rows) == IF rows = <<>> THEN 0 ELSE rows[1].amount + SumAmount(Tail(rows))

\* TransactionManager.get_summary: the dict it returns
get_summary(txs, start_date, end_date) ==
    LET df == get_transactions(txs, NoStr, NoStr, start_date, end_date, SummaryLimit)
        IsIncome(r) == r.type = "income"
        IsExpense(r) == r.type = "expense"
        income == SumAmount(SelectSeq(df, IsIncome))
        expenses == SumAmount(SelectSeq(df, IsExpense))
    IN  IF Len(df) = 0
            THEN [total_income |-> 0, total_expenses |-> 0, net |-> 0,
                  transaction_count |-> 0]
        ELSE [total_income |-> income, total_expenses |-> expenses,
              net |-> income - expenses, transaction_count |-> Len(df),
              income_count |-> Len(SelectSeq(df, IsIncome)),
              expense_count |-> Len(SelectSeq(df, IsExpense))]

\* the order groupby gives the group keys (ascending text order)
KeyRank(k) ==
    CASE k = "AAPL" -> 1
      [] k = "Food" -> 2
      [] k = "Investment Purchase" -> 3
      [] k = "MSFT" -> 4
      [] k = "Rent" -> 5
      [] k = "Salary" -> 6
      [] k = "TSLA" -> 7
      [] OTHER -> 8

\* the keys of a set in groupby order
RECURSIVE SortedKeys(_)
SortedKeys(keys) ==
    IF keys = {} THEN <<>>
    ELSE LET k == CHOOSE x \in keys : \A y \in keys : KeyRank(x) <= KeyRank(y)
         IN  <<k>> \o SortedKeys(keys \ {k})

\* sort_values('total') with ascending left at its default: smallest total first
RECURSIVE SortByTotalAsc(_)
SortByTotalAsc(rows) ==
    IF rows = <<>> THEN <<>>
    ELSE LET low == CHOOSE i \in 1 .. Len(rows) :
                       /\ \A j \in 1 .. Len(rows) : rows[j].total >= rows[i].total
                       /\ \A j \in 1 .. (i - 1) : rows[j].total > rows[i].total
         IN  <<rows[low]>> \o SortByTotalAsc(RemoveAt(rows, low))

\* df.sort_values('total', ascending=False); rows of one total keep their order
RECURSIVE SortByTotalDesc(_)
SortByTotalDesc(rows) ==
    IF rows = <<>> THEN <<>>
    ELSE LET top == CHOOSE i \in 1 .. Len(rows) :
                       /\ \A j \in 1 .. Len(rows) : rows[j].total <= rows[i].total
                       /\ \A j \in 1 .. (i - 1) : rows[j].total < rows[i].total
         IN  <<rows[top]>> \o SortByTotalDesc(RemoveAt(rows, top))

\* (total / total_expenses * 100).round(2), in hundredths of a percent
Percentage(total, total_expenses) ==
    IF total_expenses = 0 THEN [nan |-> TRUE, hundredths |-> 0]
    ELSE [nan |-> FALSE, hundredths |-> RoundDiv(total * 10000, total_expenses)]

\* the rows of the range with the transaction_type filter left out
RowsOfAnyType(txs, start_date, end_date) ==
    get_transactions(txs, NoStr, NoStr, start_date, end_date, SummaryLimit)

\* the rows get_spending_by_category asks get_transactions for
ExpenseRows(txs, start_date, end_date) ==
    get_transactions(txs, "expense", NoStr, start_date, end_date, SummaryLimit)

\* TransactionManager.get_spending_by_category: the rows of the frame it returns
get_spending_by_category(txs, start_date, end_date) ==
    LET df == ExpenseRows(txs, start_date, end_date)
        categories == SortedKeys({df[i].category : i \in 1 .. Len(df)})
        Group(c) == LET In(r) == r.category = c IN SelectSeq(df, In)
        category_totals ==
            [i \in 1 .. Len(categories) |->
                [category |-> categories[i],
                 total |-> SumAmount(Group(categories[i])),
                 count |-> Len(Group(categories[i]))]]
        Total(r) == [amount |-> r.total]
        total_expenses ==
            SumAmount([i \in 1 .. Len(category_totals) |-> Total(category_totals[i])])
        with_percentage ==
            [i \in 1 .. Len(category_totals) |->
                [category |-> category_totals[i].category,
                 total |-> category_totals[i].total,
                 count |-> category_totals[i].count,
                 percentage |-> Percentage(category_totals[i].total, total_expenses)]]
    IN  IF Len(df) = 0 THEN <<>>
        ELSE SortByTotalDesc(with_percentage)

\* the last day of each month
MonthEnds == <<31, 59, 90, 120, 151, 181, 212, 243, 273, 304, 334, 365>>

\* Series.dt.to_period('M'): the calendar month of a stored date
MonthOf(d) ==
    CHOOSE m \in 1 .. 12 : d <= MonthEnds[m] /\ (m = 1 \/ d > MonthEnds[m - 1])

\* Period.astype(str): the text YYYY-MM of a month
MonthStr(m) == [kind |-> "ym", month |-> m]

\* the months of a set in ascending order, as groupby lists them
RECURSIVE SortedMonths(_)
SortedMonths(ms) ==
    IF ms = {} THEN <<>>
    ELSE LET m == CHOOSE x \in ms : \A y \in ms : x <= y
         IN  <<m>> \o SortedMonths(ms \ {m})

\* DataFrame.tail(n)
TailRows(rows, n) ==
    IF n >= 0 THEN SubSeq(rows, IF n < Len(rows) THEN Len(rows) - n + 1 ELSE 1, Len(rows))
    ELSE SubSeq(rows, 1 - n, Len(rows))

\* the monthly frame before it is cut: one row per month of the store, with the
\* sum of each type (unstack fills 0 where a month has no row of a type that
\* occurs elsewhere; a type that occurs nowhere gets a column of 0)
MonthlyRows(txs) ==
    LET months == SortedMonths({MonthOf(txs[i].date) : i \in 1 .. Len(txs)})
        columns == {txs[i].type : i \in 1 .. Len(txs)}
        Sum(m, type) ==
            LET In(r) == MonthOf(r.date) = m /\ r.type = type
            IN  SumAmount(SelectSeq(txs, In))
        Column(m, type) == IF type \in columns THEN Sum(m, type) ELSE 0
    IN  [i \in 1 .. Len(months) |->
            [month |-> MonthStr(months[i]),
             income |-> Column(months[i], "income"),
             expense |-> Column(months[i], "expense"),
             net |-> Column(months[i], "income") - Column(months[i], "expense")]]

\* get_monthly_trend keeping the first `months` rows instead of the last
get_monthly_trend_head(txs, months) ==
    IF Len(txs) = 0 THEN <<>> ELSE HeadRows(MonthlyRows(txs), months)

\* TransactionManager.get_monthly_trend: the rows of the frame it returns
get_monthly_trend(txs, months) ==
    IF Len(txs) = 0 THEN <<>> ELSE TailRows(MonthlyRows(txs), months)

\* what the price provider answers for a symbol (yf.Ticker(symbol).info):
\* a price, no price field at all, or an exception
Quote(p) == [kind |-> "price", value |-> p]
NoQuote == [kind |-> "missing", value |-> 0]
QuoteError == [kind |-> "error", value |-> 0]

Symbols == {"AAPL", "MSFT"}

PriceProviders ==
    { [s \in Symbols |-> Quote(7)],
      [s \in Symbols |-> IF s = "AAPL" THEN NoQuote ELSE Quote(7)],
      [s \in Symbols |-> IF s = "AAPL" THEN QuoteError ELSE Quote(0)] }

RECURSIVE SumField(_, _)
SumField(rows, f) == IF rows = <<>> THEN 0 ELSE rows[1][f] + SumField(Tail(rows), f)

\* the holding for a symbol taken from its last lot alone
HoldingOfLastLot(invs, symbol, provider) ==
    LET In(r) == r.symbol = symbol
        lots == SelectSeq(invs, In)
        quantity == Num(lots[Len(lots)].quantity)
        cost == Num(lots[Len(lots)].total_cost)
        avg_purchase_price == FDiv(cost, quantity)
        answer == provider[symbol]
        current_price ==
            IF answer.kind = "price" /\ answer.value # 0 THEN Num(answer.value)
            ELSE avg_purchase_price
        value == FMul(quantity, current_price)
        gain_loss == FSub(value, cost)
    IN  [symbol |-> symbol, quantity |-> quantity,
         avg_purchase_price |-> avg_purchase_price, current_price |-> current_price,
         total_cost |-> cost, current_value |-> value, gain_loss |-> gain_loss,
         gain_loss_percent |->
            IF FPositive(cost) THEN FMul(FDiv(gain_loss, cost), Num(100)) ELSE Num(0)]

\* one pass of the loop over the grouped rows: the holding for a symbol
Holding(invs, symbol, provider) ==
    LET In(r) == r.symbol = symbol
        lots == SelectSeq(invs, In)
        quantity == Num(SumField(lots, "quantity"))
        cost == Num(SumField(lots, "total_cost"))
        avg_purchase_price == FDiv(cost, quantity)
        answer == provider[symbol]
        current_price ==
            IF answer.kind = "price" /\ answer.value # 0 THEN Num(answer.value)
            ELSE avg_purchase_price
        value == FMul(quantity, current_price)
        gain_loss == FSub(value, cost)
    IN  [symbol |-> symbol, quantity |-> quantity,
         avg_purchase_price |-> avg_purchase_price, current_price |-> current_price,
         total_cost |-> cost, current_value |-> value, gain_loss |-> gain_loss,
         gain_loss_percent |->
            IF FPositive(cost) THEN FMul(FDiv(gain_loss, cost), Num(100)) ELSE Num(0)]

RECURSIVE FSum(_, _)
FSum(rows, f) == IF rows = <<>> THEN Num(0) ELSE FAdd(FSum(SubSeq(rows, 1, Len(rows) - 1), f),
                                                     rows[Len(rows)][f])

\* the mean of the holdings' gain_loss_percent
MeanPercent(holdings) ==
    IF holdings = <<>> THEN Num(0)
    ELSE FDiv(FSum(holdings, "gain_loss_percent"), Num(Len(holdings)))

\* get_portfolio_value reporting the mean of the per-symbol percentages as
\* total_gain_loss_percent
get_portfolio_value_mean_percent(invs, provider, strict) ==
    LET symbols == SortedKeys({invs[i].symbol : i \in 1 .. Len(invs)})
        holdings == [i \in 1 .. Len(symbols) |-> Holding(invs, symbols[i], provider)]
        zero_quantity == \E i \in 1 .. Len(holdings) : holdings[i].quantity = Num(0)
        total_invested == FSum(holdings, "total_cost")
        current_value == FSum(holdings, "current_value")
    IN  IF Len(invs) = 0
            THEN [raised |-> FALSE, provider_calls |-> <<>>,
                  ret |-> [total_invested |-> Num(0), current_value |-> Num(0),
                           total_gain_loss |-> Num(0), total_gain_loss_percent |-> Num(0),
                           holdings |-> <<>>]]
        ELSE IF strict /\ zero_quantity
            THEN [raised |-> TRUE, provider_calls |-> <<>>, ret |-> <<>>]
        ELSE [raised |-> FALSE, provider_calls |-> symbols,
              ret |-> [total_invested |-> total_invested, current_value |-> current_value,
                       total_gain_loss |-> FSub(current_value, total_invested),
                       total_gain_loss_percent |-> MeanPercent(holdings),
                       holdings |-> holdings]]

\* TransactionManager.get_portfolio_value: the dict it returns (ret), the symbols
\* it asked the price provider about, and whether it raised.  strict: the
\* quantity column holds Python floats (object dtype), whose division by zero
\* raises; otherwise numpy floats, whose division by zero gives inf or nan.
get_portfolio_value(invs, provider, strict) ==
    LET symbols == SortedKeys({invs[i].symbol : i \in 1 .. Len(invs)})
        holdings == [i \in 1 .. Len(symbols) |-> Holding(invs, symbols[i], provider)]
        zero_quantity == \E i \in 1 .. Len(holdings) : holdings[i].quantity = Num(0)
        first_zero == CHOOSE i \in 1 .. Len(holdings) :
                         /\ holdings[i].quantity = Num(0)
                         /\ \A j \in 1 .. (i - 1) : holdings[j].quantity # Num(0)
        total_invested == FSum(holdings, "total_cost")
        current_value == FSum(holdings, "current_value")
        total_gain_loss == FSub(current_value, total_invested)
    IN  IF Len(invs) = 0
            THEN [raised |-> FALSE, provider_calls |-> <<>>,
                  ret |-> [total_invested |-> Num(0), current_value |-> Num(0),
                           total_gain_loss |-> Num(0), total_gain_loss_percent |-> Num(0),
                           holdings |-> <<>>]]
        ELSE IF strict /\ zero_quantity
            THEN [raised |-> TRUE, provider_calls |-> SubSeq(symbols, 1, first_zero - 1),
                  ret |-> <<>>]
        ELSE [raised |-> FALSE, provider_calls |-> symbols,
              ret |-> [total_invested |-> total_invested, current_value |-> current_value,
                       total_gain_loss |-> total_gain_loss,
                       total_gain_loss_percent |->
                          IF FPositive(total_invested)
                              THEN FMul(FDiv(total_gain_loss, total_invested), Num(100))
                          ELSE Num(0),
                       holdings |-> holdings]]

\* TransactionManager.get_net_worth
get_net_worth(txs, invs, provider, strict) ==
    LET summary == get_summary(txs, NoDate, NoDate)
        cash_balance == Num(summary.net)
        portfolio == get_portfolio_value(invs, provider, strict)
        investment_value == portfolio.ret.current_value
    IN  IF portfolio.raised
            THEN [raised |-> TRUE, provider_calls |-> portfolio.provider_calls, ret |-> <<>>]
        ELSE [raised |-> FALSE, provider_calls |-> portfolio.provider_calls,
              ret |-> [cash_balance |-> cash_balance,
                       investment_value |-> investment_value,
                       total_net_worth |-> FAdd(cash_balance, investment_value),
                       portfolio_details |-> portfolio.ret]]

----------------------------------------------------------------------------
(* State machine *)

\* TransactionManager.__init__ on a fresh directory: neither CSV file exists,
\* so both stores are empty frames
Init ==
    /\ transactions = <<>>
    /\ investments = <<>>
    /\ txFile = Missing
    /\ invFile = Missing
    /\ call = [op |-> "init"]

\* the write outcomes the environment of a step allows
Outcomes(n, faulty) == IF faulty THEN WriteOutcomes(n) ELSE {WriteOk}

AddTransactionStep(inputs, faulty) ==
    \E a \in inputs, today \in Clock, w \in Outcomes(Len(transactions) + 1, faulty) :
        LET r == AddTransaction(transactions, txFile, a, today, w)
        IN  /\ Len(transactions) < MaxTx
            /\ r.wrote \/ w = WriteOk
            /\ transactions' = r.transactions
            /\ txFile' = r.file
            /\ call' = [op |-> "add_transaction", args |-> a, ret |-> r.ret]
            /\ UNCHANGED <<investments, invFile>>

DeleteTransactionStep(ids, faulty) ==
    \E transaction_id \in ids :
      \E w \in Outcomes(Len(DeleteTransaction(transactions, txFile, transaction_id,
                                             WriteOk).transactions), faulty) :
        LET r == DeleteTransaction(transactions, txFile, transaction_id, w)
        IN  /\ r.wrote \/ w = WriteOk
            /\ transactions' = r.transactions
            /\ txFile' = r.file
            /\ call' = [op |-> "delete_transaction", args |-> transaction_id, ret |-> r.ret]
            /\ UNCHANGED <<investments, invFile>>

AddInvestmentStep(inputs, faulty) ==
    \E a \in inputs, today \in Clock,
       w1 \in Outcomes(Len(investments) + 1, faulty),
       w2 \in Outcomes(Len(transactions) + 1, faulty) :
        LET r == AddInvestment(investments, invFile, transactions, txFile, a, today, w1, w2)
        IN  /\ Len(transactions) < MaxTx
            /\ Len(investments) < MaxInv
            /\ (r.wrote = 0) => (w1 = WriteOk /\ w2 = WriteOk)
            /\ (r.wrote = 1) => (w2 = WriteOk)
            /\ investments' = r.investments
            /\ invFile' = r.invFile
            /\ transactions' = r.transactions
            /\ txFile' = r.txFile
            /\ call' = [op |-> "add_investment", args |-> a, ret |-> r.ret,
                        nested |-> r.nested]

\* delete_investment also taking back the purchase expenses of the symbol
DeleteInvestmentReversesExpense(faulty) ==
    \E symbol \in SymbolInputs :
        LET r == DeleteInvestment(investments, invFile, symbol, WriteOk)
            Keep(t) == ~(/\ t.category = "Investment Purchase"
                         /\ Len(t.description) = 6
                         /\ t.description[4] = UpperStrip(symbol))
            kept == SelectSeq(transactions, Keep)
        IN  /\ investments' = r.investments
            /\ invFile' = r.invFile
            /\ transactions' = kept
            /\ txFile' = IF r.wrote THEN save_transactions(txFile, kept, WriteOk) ELSE txFile
            /\ call' = [op |-> "delete_investment", args |-> symbol, ret |-> r.ret,
                        removed_count |-> r.removed_count]

DeleteInvestmentStep(faulty) ==
    \E symbol \in SymbolInputs :
      \E w \in Outcomes(Len(DeleteInvestment(investments, invFile, symbol,
                                            WriteOk).investments), faulty) :
        LET r == DeleteInvestment(investments, invFile, symbol, w)
        IN  /\ r.wrote \/ w = WriteOk
            /\ investments' = r.investments
            /\ invFile' = r.invFile
            /\ call' = [op |-> "delete_investment", args |-> symbol, ret |-> r.ret,
                        removed_count |-> r.removed_count]
            /\ UNCHANGED <<transactions, txFile>>

\* the operations while the disk works
add_transaction == AddTransactionStep(TxInputs, FALSE)

delete_transaction == DeleteTransactionStep(1 .. (MaxTx + 1), FALSE)

add_investment == AddInvestmentStep(InvInputs, FALSE)

delete_investment == DeleteInvestmentStep(FALSE)

\* the operations while any CSV write may fail
IOTxInputs == {a \in TxInputs : a.amount = 2}

IOInvInputs == {a \in InvInputs : a.symbol = " aapl "}

add_transaction_io == AddTransactionStep(IOTxInputs, TRUE)

\* the ids delete_transaction is asked for on a failing disk
IODeleteIds == {1, 2}

delete_transaction_io == DeleteTransactionStep(IODeleteIds, TRUE)

add_investment_io == AddInvestmentStep(IOInvInputs, TRUE)

delete_investment_io == DeleteInvestmentStep(TRUE)

\* the date ranges the queries are asked about
DateRanges ==
    { <<NoDate, NoDate>>, <<Ymd(2), NoDate>>, <<NoDate, Ymd(1)>>, <<Ymd(3), Ymd(3)>> }

\* a query that sorts the transaction store itself instead of a copy of it
QuerySortsStore(op, args, result) ==
    /\ call' = [op |-> op, args |-> args, ret |-> result]
    /\ transactions' = SortByDateDesc(transactions)
    /\ UNCHANGED <<investments, txFile, invFile>>

\* a query: it works on copies of the stores and returns its result
Query(op, args, result) ==
    /\ call' = [op |-> op, args |-> args, ret |-> result]
    /\ UNCHANGED <<transactions, investments, txFile, invFile>>

\* the insertions that build the stores the queries are asked about
add_transaction_query == AddTransactionStep(QueryTxInputs, FALSE)

add_investment_query == AddInvestmentStep(QueryInvInputs, FALSE)

\* the `months` arguments of get_monthly_trend (6 is its default)
TrendMonths == {0, 1, 6}

monthly_trend ==
    \E months \in TrendMonths :
        Query("get_monthly_trend", months, get_monthly_trend(transactions, months))

\* actual arguments of get_transactions; limit_given: the caller passes limit
ListArg(transaction_type, category, start_date, end_date, limit_given, limit) ==
    [transaction_type |-> transaction_type, category |-> category,
     start_date |-> start_date, end_date |-> end_date,
     limit_given |-> limit_given, limit |-> limit]

ListInputs ==
    { ListArg(NoStr, NoStr, NoDate, NoDate, FALSE, 0),
      ListArg(NoStr, NoStr, NoDate, NoDate, TRUE, 1),
      ListArg(NoStr, NoStr, NoDate, NoDate, TRUE, 0),
      ListArg("Expense", NoStr, NoDate, NoDate, TRUE, 1),
      ListArg("income", NoStr, NoDate, Ymd(1), FALSE, 0),
      ListArg("expense", "Food", Ymd(2), NoDate, TRUE, 2),
      ListArg(NoStr, "Investment Purchase", Ymd(1), Ymd(1), TRUE, 1),
      ListArg("income", "Food", NoDate, NoDate, TRUE, 2) }

list_transactions ==
    \E a \in ListInputs :
        Query("get_transactions", a,
              get_transactions(transactions, a.transaction_type, a.category,
                               a.start_date, a.end_date,
                               IF a.limit_given THEN a.limit ELSE DefaultLimit))

\* the insertions that fill a store beyond the default limit
BulkTxInputs == {a \in TxInputs : a.amount = 3 /\ a.date = NoDate}

add_transaction_bulk ==
    \E a \in BulkTxInputs, today \in Clock :
        LET r == AddTransaction(transactions, txFile, a, today, WriteOk)
        IN  /\ Len(transactions) < MaxListTx
            /\ transactions' = r.transactions
            /\ txFile' = r.file
            /\ call' = [op |-> "add_transaction", args |-> a, ret |-> r.ret]
            /\ UNCHANGED <<investments, invFile>>

summary ==
    \E range \in DateRanges :
        Query("get_summary", range, get_summary(transactions, range[1], range[2]))

spending_by_category ==
    \E range \in DateRanges :
        Query("get_spending_by_category", range,
              get_spending_by_category(transactions, range[1], range[2]))

portfolio_value ==
    \E provider \in PriceProviders, strict \in BOOLEAN :
        Query("get_portfolio_value", provider,
              get_portfolio_value(investments, provider, strict))

net_worth ==
    \E provider \in PriceProviders, strict \in BOOLEAN :
        Query("get_net_worth", provider,
              get_net_worth(transactions, investments, provider, strict))

\* TransactionManager.get_investments: a copy of the investment store
list_investments == Query("get_investments", <<>>, investments)

\* a new process constructs the TransactionManager over the files on disk
reload ==
    \E by_first \in BOOLEAN :
        /\ transactions' = load_transactions(txFile, by_first)
        /\ investments' = load_investments(invFile, by_first)
        /\ call' = [op |-> "init"]
        /\ UNCHANGED <<txFile, invFile>>

\* the arguments of the add_transaction call inside add_investment
NestedArgs(a, today) ==
    [transaction_type |-> "expense", category |-> "Investment Purchase",
     amount |-> a.quantity * a.purchase_price,
     description |-> PurchaseDescription(a.quantity, UpperStrip(a.symbol), a.purchase_price),
     date |-> IF a.purchase_date.kind = "none" THEN Ymd(today) ELSE a.purchase_date,
     payment_method |-> "Cash"]

\* the arguments add_investment accepts, for the call taken step by step
StepInvInputs == {a \in InvInputs : ~StrptimeFails(a.purchase_date)}

\* the position of an add_investment call that has not returned: what it was
\* called with and on, the lot it adds and the expense it links to the lot
Running(pc, a, today, before, lot, expense) ==
    [op |-> "add_investment_running", pc |-> pc, args |-> a, today |-> today,
     before |-> before, lot |-> lot, expense |-> expense]

\* an add_investment call that records the linked expense first and the lot
\* afterwards
add_investment_begin_with_expense ==
    \E a \in StepInvInputs, today \in Clock :
        LET r == AddInvestment(investments, invFile, transactions, txFile, a, today,
                               WriteOk, WriteOk)
        IN  /\ call.op # "add_investment_running"
            /\ Len(transactions) < MaxTx
            /\ Len(investments) < MaxInv
            /\ r.wrote > 0
            /\ transactions' = r.transactions
            /\ call' = Running("save_investments", a, today,
                               [transactions |-> transactions, txFile |-> txFile],
                               r.investments[Len(r.investments)],
                               r.transactions[Len(r.transactions)])
            /\ UNCHANGED <<investments, txFile, invFile>>

\* add_investment, first step: the arguments are checked and the lot is
\* appended to the investment store
add_investment_begin ==
    \E a \in StepInvInputs, today \in Clock :
        LET r == AddInvestment(investments, invFile, transactions, txFile, a, today,
                               WriteOk, WriteOk)
        IN  /\ call.op # "add_investment_running"
            /\ Len(transactions) < MaxTx
            /\ Len(investments) < MaxInv
            /\ r.wrote > 0
            /\ investments' = r.investments
            /\ call' = Running("save_investments", a, today,
                               [transactions |-> transactions, txFile |-> txFile],
                               r.investments[Len(r.investments)],
                               r.transactions[Len(r.transactions)])
            /\ UNCHANGED <<transactions, txFile, invFile>>

\* what a call that went through the steps has returned
Returned(ret, nested) ==
    [op |-> "add_investment", args |-> call.args, ret |-> ret, nested |-> nested,
     before |-> call.before, lot |-> call.lot, expense |-> call.expense]

\* second step: _save_investments; a failed write ends the call with the error
\* result
add_investment_save ==
    \E w \in WriteOutcomes(Len(investments)) :
        /\ call.op = "add_investment_running"
        /\ call.pc = "save_investments"
        /\ invFile' = save_investments(invFile, investments, w)
        /\ call' = IF w.ok THEN [call EXCEPT !.pc = "add_transaction"]
                   ELSE Returned("error_adding", "not_called")
        /\ UNCHANGED <<transactions, investments, txFile>>

\* third step: the nested add_transaction appends the expense to the
\* transaction store
add_investment_expense ==
    /\ call.op = "add_investment_running"
    /\ call.pc = "add_transaction"
    /\ transactions' = AddTransaction(transactions, txFile,
                                      NestedArgs(call.args, call.today), call.today,
                                      WriteOk).transactions
    /\ call' = [call EXCEPT !.pc = "save_transactions"]
    /\ UNCHANGED <<investments, txFile, invFile>>

\* fourth step: the nested add_transaction saves the transaction store and
\* returns, and add_investment returns its success result
add_investment_expense_save ==
    \E w \in WriteOutcomes(Len(transactions)) :
        /\ call.op = "add_investment_running"
        /\ call.pc = "save_transactions"
        /\ txFile' = save_transactions(txFile, transactions, w)
        /\ call' = Returned("ok", IF w.ok THEN "ok" ELSE "error_adding")
        /\ UNCHANGED <<transactions, investments, invFile>>

\* the process stops where it is, and a new process constructs the
\* TransactionManager over the files on disk
crash ==
    \E by_first \in BOOLEAN :
        /\ transactions' = load_transactions(txFile, by_first)
        /\ investments' = load_investments(invFile, by_first)
        /\ call' = IF call.op = "add_investment_running"
                       THEN [op |-> "crash", pc |-> call.pc, before |-> call.before,
                             lot |-> call.lot, expense |-> call.expense]
                   ELSE [op |-> "crash", pc |-> "idle"]
        /\ UNCHANGED <<txFile, invFile>>

\* the date fields a file found on disk can hold at row i: as the program writes
\* them, as plain YYYY-MM-DD, or text that is no date
FileDates(i) == {Strftime(i), Ymd(i), BadDate}

\* the transactions.csv files a process can find: none, one that is no table,
\* or a table of up to MaxFileRows rows
TxFileInputs ==
    {Missing, Unreadable} \cup
    UNION { { [exists |-> TRUE,
               rows |-> [i \in 1 .. n |->
                           [id |-> i, date |-> d[i], type |-> "income", category |-> "Salary",
                            amount |-> 3, description |-> <<"pay">>,
                            payment_method |-> "Cash"]]]
              : d \in {f \in [1 .. n -> UNION {FileDates(i) : i \in 1 .. n}] :
                          \A i \in 1 .. n : f[i] \in FileDates(i)} }
            : n \in 0 .. MaxFileRows }

\* the investments.csv files a process can find
InvFileInputs ==
    {Missing, Unreadable} \cup
    UNION { { [exists |-> TRUE,
               rows |-> [i \in 1 .. n |->
                           [id |-> i, symbol |-> "AAPL", quantity |-> 2, purchase_price |-> 5,
                            purchase_date |-> d[i], total_cost |-> 10]]]
              : d \in {f \in [1 .. n -> UNION {FileDates(i) : i \in 1 .. n}] :
                          \A i \in 1 .. n : f[i] \in FileDates(i)} }
            : n \in 0 .. MaxFileRows }

\* a process constructs the TransactionManager in a directory that holds the
\* given files
construct ==
    \E tf \in TxFileInputs, if \in InvFileInputs, by_first \in BOOLEAN :
        /\ txFile' = tf
        /\ invFile' = if
        /\ transactions' = load_transactions(tf, by_first)
        /\ investments' = load_investments(if, by_first)
        /\ call' = [op |-> "init"]

\* the mutating operations
Next ==
    \/ add_transaction
    \/ delete_transaction
    \/ add_investment
    \/ delete_investment

Spec == Init /\ [][Next]_vars

\* the queries, over the stores that insertions and deletion by symbol build
NextQuery ==
    \/ add_transaction_query
    \/ add_investment_query
    \/ delete_investment
    \/ summary
    \/ spending_by_category
    \/ portfolio_value
    \/ net_worth
    \/ list_transactions
    \/ monthly_trend
    \/ list_investments

SpecQuery == Init /\ [][NextQuery]_vars

\* get_transactions over stores larger than its default limit
NextList ==
    \/ add_transaction_bulk
    \/ list_transactions

SpecList == Init /\ [][NextList]_vars

\* insertions and deletion by symbol, across restarts of the process
NextReload ==
    \/ add_transaction
    \/ add_investment
    \/ delete_investment
    \/ reload

SpecReload == Init /\ [][NextReload]_vars

\* the mutating operations on a disk whose writes may fail
NextIO ==
    \/ add_transaction_io
    \/ delete_transaction_io
    \/ add_investment_io
    \/ delete_investment_io

SpecIO == Init /\ [][NextIO]_vars

\* add_investment step by step, with failing writes and crashes
NextSteps ==
    \/ add_investment_begin
    \/ add_investment_save
    \/ add_investment_expense
    \/ add_investment_expense_save
    \/ crash

SpecSteps == Init /\ [][NextSteps]_vars

\* construction over the files found on disk
NextLoad == construct

SpecLoad == Init /\ [][NextLoad]_vars

\* insertions on a disk whose writes may fail, and the queries that list the
\* stores afterwards
NextFault ==
    \/ add_transaction_io
    \/ add_investment_io
    \/ list_transactions
    \/ list_investments

SpecFault == Init /\ [][NextFault]_vars

----------------------------------------------------------------------------
(* Claims about the mutating operations (Spec) *)

HasTx(id) == \E i \in 1 .. Len(transactions) : transactions[i].id = id
StoresUnchanged == UNCHANGED <<transactions, investments, txFile, invFile>>

\* C1: after any sequence of add_transaction, delete_transaction, add_investment
\* and delete_investment calls from empty stores, no two transactions share an
\* id and no two lots share an id.
C1_UniqueIds ==
    /\ \A i, j \in 1 .. Len(transactions) :
           transactions[i].id = transactions[j].id => i = j
    /\ \A i, j \in 1 .. Len(investments) :
           investments[i].id = investments[j].id => i = j

\* C2: every add_investment call that returns success adds exactly one lot and
\* exactly one new transaction, and that transaction is an expense of category
\* "Investment Purchase" whose amount is the lot's total_cost and whose date is
\* the purchase date.
C2_InvestmentSideEffect ==
    [][ (call'.op = "add_investment" /\ call'.ret = "ok") =>
          /\ Len(investments') = Len(investments) + 1
          /\ SubSeq(investments', 1, Len(investments)) = investments
          /\ Len(transactions') = Len(transactions) + 1
          /\ SubSeq(transactions', 1, Len(transactions)) = transactions
          /\ LET lot == investments'[Len(investments')]
                 tx == transactions'[Len(transactions')]
             IN  /\ tx.type = "expense"
                 /\ tx.category = "Investment Purchase"
                 /\ tx.amount = lot.total_cost
                 /\ tx.date = lot.purchase_date ]_vars

\* C3: delete_transaction(id) with an id present in the store removes exactly one
\* record, the one with that id, and leaves every other record unchanged.
C3_DeleteExactlyOne ==
    [][ (call'.op = "delete_transaction" /\ HasTx(call'.args)) =>
          \E i \in 1 .. Len(transactions) :
              /\ transactions[i].id = call'.args
              /\ transactions' = RemoveAt(transactions, i) ]_vars

\* C4: delete_transaction(id) with an id that matches no record returns the
\* not-found result and leaves both stores and both files unchanged.
C4_DeleteMissingIsNoOp ==
    [][ (call'.op = "delete_transaction" /\ ~HasTx(call'.args)) =>
          (call'.ret = "not_found" /\ StoresUnchanged) ]_vars

\* C4 happens: a delete of an id that a non-empty store does not hold
C4_Witness ==
    /\ call.op = "delete_transaction"
    /\ call.ret = "not_found"
    /\ Len(transactions) > 0
    /\ txFile.exists

\* C5: add_investment with quantity <= 0 or purchase_price <= 0 returns an error
\* and leaves both stores and both files unchanged.
C5_RejectsNonPositive ==
    [][ (/\ call'.op = "add_investment"
         /\ (call'.args.quantity <= 0 \/ call'.args.purchase_price <= 0)) =>
          (call'.ret # "ok" /\ StoresUnchanged) ]_vars

\* C6: every stored transaction has amount >= 0, and add_transaction with amount
\* a and with amount -a (all else equal, from the same state) store the same
\* record.
C6_AmountIsAbsolute ==
    /\ \A i \in 1 .. Len(transactions) : transactions[i].amount >= 0
    /\ \A a \in TxInputs, today \in Clock :
           AddTransaction(transactions, txFile, a, today, WriteOk).transactions
             = AddTransaction(transactions, txFile, [a EXCEPT !.amount = -a.amount],
                              today, WriteOk).transactions

\* C6 happens: a negative amount was given and its absolute value is stored
C6_Witness ==
    /\ call.op = "add_transaction"
    /\ call.ret = "ok"
    /\ call.args.amount < 0
    /\ transactions[Len(transactions)].amount = -call.args.amount

\* C7: every lot has total_cost = quantity * purchase_price, quantity > 0 and
\* purchase_price > 0.
C7_LotCostAndPositivity ==
    \A i \in 1 .. Len(investments) :
        /\ investments[i].total_cost = investments[i].quantity * investments[i].purchase_price
        /\ investments[i].quantity > 0
        /\ investments[i].purchase_price > 0

\* the spellings of a type that add_transaction has to accept
AcceptedTypes == {"income", "expense", "Income", "Expense", "INCOME", "EXPENSE"}

\* C21: add_transaction with a type that is neither income nor expense in any
\* letter case, or with a date that is not a YYYY-MM-DD date, returns an error
\* result and leaves both stores and both files unchanged; an accepted call
\* stores the type in lower case.
C21_RejectsBadTypeAndDate ==
    [][ call'.op = "add_transaction" =>
          IF \/ call'.args.transaction_type \notin AcceptedTypes
             \/ call'.args.date.kind = "bad"
              THEN /\ call'.ret \in {"error_type", "error_invalid_input"}
                   /\ StoresUnchanged
          ELSE /\ call'.ret = "ok"
               /\ Len(transactions') = Len(transactions) + 1
               /\ transactions'[Len(transactions')].type \in {"income", "expense"} ]_vars

\* C21 happens: a malformed date is refused while the store holds a record
\* that was given as "Expense"
C21_Witness ==
    /\ call.op = "add_transaction"
    /\ call.ret = "error_invalid_input"
    /\ Len(transactions) = 1
    /\ transactions[1].type = "expense"
    /\ txFile.exists

\* C23: the id of a newly added transaction or lot is the number of records
\* its store held just before the insertion plus one, whatever ids are
\* present; so a delete of a record other than the last followed by an add
\* reaches a state in which two records carry one id.
C23_IdIsCountPlusOne ==
    [][ /\ (call'.op = "add_transaction" /\ call'.ret = "ok") =>
              transactions'[Len(transactions')].id = Len(transactions) + 1
        /\ (call'.op = "add_investment" /\ call'.ret = "ok") =>
              /\ investments'[Len(investments')].id = Len(investments) + 1
              /\ transactions'[Len(transactions')].id = Len(transactions) + 1 ]_vars

\* C23 happens: after deletions of first records, an add_investment has given
\* its lot and its expense ids that the stores already held
C23_Witness ==
    /\ call.op = "add_investment"
    /\ call.ret = "ok"
    /\ Len(transactions) = 2 /\ transactions[1].id = 2 /\ transactions[2].id = 2
    /\ Len(investments) = 2 /\ investments[1].id = 2 /\ investments[2].id = 2

----------------------------------------------------------------------------
(* Claims about the queries (SpecQuery) *)

\* the date of a stored record lies in the inclusive range
InRange(r, range) ==
    /\ range[1].kind = "none" \/ r.date >= range[1].day
    /\ range[2].kind = "none" \/ r.date <= range[2].day

\* the stored records of a type whose date lies in the range, by position
Matching(type, range) ==
    {i \in 1 .. Len(transactions) :
        transactions[i].type = type /\ InRange(transactions[i], range)}

RECURSIVE AmountOf(_)
AmountOf(I) ==
    IF I = {} THEN 0
    ELSE LET i == CHOOSE x \in I : TRUE
         IN  transactions[i].amount + AmountOf(I \ {i})

SummaryFields ==
    {"total_income", "total_expenses", "net", "transaction_count",
     "income_count", "expense_count"}

\* C8: for every store and every date range, summary returns
\* net = total_income - total_expenses and
\* income_count + expense_count = transaction_count, the totals being the sums
\* of the income and of the expense amounts dated in the range.
C8_SummaryIdentity ==
    call.op = "get_summary" =>
        /\ SummaryFields \subseteq DOMAIN call.ret
        /\ call.ret.net = call.ret.total_income - call.ret.total_expenses
        /\ call.ret.income_count + call.ret.expense_count = call.ret.transaction_count
        /\ call.ret.total_income = AmountOf(Matching("income", call.args))
        /\ call.ret.total_expenses = AmountOf(Matching("expense", call.args))

\* C9: when no transaction matches the date range, summary returns all six
\* fields, each equal to zero.
C9_EmptySummaryHasSixZeros ==
    (/\ call.op = "get_summary"
     /\ \A i \in 1 .. Len(transactions) : ~InRange(transactions[i], call.args)) =>
        /\ SummaryFields \subseteq DOMAIN call.ret
        /\ \A f \in SummaryFields : call.ret[f] = 0

NoExpenseRecords == \A i \in 1 .. Len(transactions) : transactions[i].type # "expense"

\* C10: with an empty investment store portfolio_value returns all four totals
\* zero and no holdings, without asking the price provider; with both stores
\* empty net_worth returns cash_balance, investment_value and total_net_worth
\* zero; with no expense records spending_by_category returns no rows; none of
\* them raises.
C10_EmptyStateQueries ==
    /\ (call.op = "get_portfolio_value" /\ investments = <<>>) =>
          /\ ~call.ret.raised
          /\ call.ret.provider_calls = <<>>
          /\ call.ret.ret.total_invested = Num(0)
          /\ call.ret.ret.current_value = Num(0)
          /\ call.ret.ret.total_gain_loss = Num(0)
          /\ call.ret.ret.total_gain_loss_percent = Num(0)
          /\ call.ret.ret.holdings = <<>>
    /\ (call.op = "get_net_worth" /\ investments = <<>> /\ transactions = <<>>) =>
          /\ ~call.ret.raised
          /\ call.ret.ret.cash_balance = Num(0)
          /\ call.ret.ret.investment_value = Num(0)
          /\ call.ret.ret.total_net_worth = Num(0)
    /\ (call.op = "get_spending_by_category" /\ NoExpenseRecords) =>
          call.ret = <<>>

\* C10 happens: portfolio_value on an investment store emptied by
\* delete_investment, while the purchase expenses remain
C10_Witness ==
    /\ call.op = "get_portfolio_value"
    /\ investments = <<>>
    /\ invFile.exists
    /\ transactions # <<>>

\* the provider has no usable price for the symbol: no price field, a zero
\* price, or an exception
Unpriced(provider, symbol) ==
    provider[symbol].kind # "price" \/ provider[symbol].value = 0

\* C11: for every symbol whose price is missing, zero or an error,
\* portfolio_value does not raise and reports the holding with
\* current_price = avg_purchase_price and gain_loss = 0; the holdings of the
\* other symbols carry the provider's price.
C11_PortfolioFallback ==
    call.op = "get_portfolio_value" =>
        /\ ~call.ret.raised
        /\ \A i \in 1 .. Len(call.ret.ret.holdings) :
              LET h == call.ret.ret.holdings[i]
              IN  IF Unpriced(call.args, h.symbol)
                      THEN /\ h.current_price = h.avg_purchase_price
                           /\ IsFinite(h.current_price)
                           /\ h.gain_loss = Num(0)
                  ELSE h.current_price = Num(call.args[h.symbol].value)

\* C12: net_worth returns cash_balance = income minus expenses over all
\* transactions, investment_value = the portfolio's current_value, and
\* total_net_worth = cash_balance + investment_value, in every reachable state.
C12_NetWorthIdentity ==
    call.op = "get_net_worth" =>
        /\ ~call.ret.raised
        /\ call.ret.ret.cash_balance
             = Num(AmountOf(Matching("income", <<NoDate, NoDate>>))
                   - AmountOf(Matching("expense", <<NoDate, NoDate>>)))
        /\ call.ret.ret.investment_value = call.ret.ret.portfolio_details.current_value
        /\ IsFinite(call.ret.ret.investment_value)
        /\ call.ret.ret.total_net_worth
             = FAdd(call.ret.ret.cash_balance, call.ret.ret.investment_value)

RECURSIVE SumHundredths(_)
SumHundredths(rows) ==
    IF rows = <<>> THEN 0 ELSE rows[1].percentage.hundredths + SumHundredths(Tail(rows))

\* C13: whenever the range holds at least one expense record, the percentages
\* spending_by_category returns are numbers and sum to 100 within the rounding
\* error of two decimals per category (half a hundredth each), also when every
\* expense amount in the range is zero.
C13_PercentagesSumTo100 ==
    (call.op = "get_spending_by_category" /\ Matching("expense", call.args) # {}) =>
        /\ \A i \in 1 .. Len(call.ret) : ~call.ret[i].percentage.nan
        /\ 2 * Abs(SumHundredths(call.ret) - 10000) <= Len(call.ret)

\* the categories of the expense records dated in the range
ExpenseCategories(range) ==
    {transactions[i].category : i \in Matching("expense", range)}

\* the expense records of a category dated in the range, by position
InCategory(c, range) ==
    {i \in Matching("expense", range) : transactions[i].category = c}

\* C14: spending_by_category returns exactly one entry per category occurring
\* among the expense records of the range (income records contribute nothing),
\* with total the sum and count the number of those records, ordered by total
\* descending.
C14_OneEntryPerCategory ==
    call.op = "get_spending_by_category" =>
        /\ {call.ret[i].category : i \in 1 .. Len(call.ret)} = ExpenseCategories(call.args)
        /\ Len(call.ret) = Cardinality(ExpenseCategories(call.args))
        /\ \A i \in 1 .. Len(call.ret) :
              /\ call.ret[i].total = AmountOf(InCategory(call.ret[i].category, call.args))
              /\ call.ret[i].count = Cardinality(InCategory(call.ret[i].category, call.args))
        /\ \A i, j \in 1 .. Len(call.ret) :
              i < j => call.ret[i].total >= call.ret[j].total

\* C14 happens: two categories with different totals, the larger one stored
\* last
C14_Witness ==
    /\ call.op = "get_spending_by_category"
    /\ Len(call.ret) = 2
    /\ call.ret[1].total > call.ret[2].total
    /\ Len(transactions) = 2
    /\ transactions[2].category = call.ret[1].category

\* the stored records that pass all the filters of a get_transactions call,
\* by position
ListMatching(a) ==
    {i \in 1 .. Len(transactions) :
        /\ a.transaction_type = NoStr
             \/ transactions[i].type = Lower(a.transaction_type)
        /\ a.category = NoStr \/ transactions[i].category = a.category
        /\ InRange(transactions[i], <<a.start_date, a.end_date>>)}

Min(a, b) == IF a < b THEN a ELSE b

\* how often the record r occurs in a sequence, and among the stored records
\* at the positions I
CountIn(rows, r) == Cardinality({i \in 1 .. Len(rows) : rows[i] = r})
CountAt(I, r) == Cardinality({i \in I : transactions[i] = r})

\* ret holds n of the stored records at the positions I, each no more often
\* than I holds it, latest first, and no record of I left out is later than one
\* returned
LatestOf(ret, I, n) ==
    /\ Len(ret) = n
    /\ \A i \in 1 .. Len(ret) : CountIn(ret, ret[i]) <= CountAt(I, ret[i])
    /\ \A i, j \in 1 .. Len(ret) : i < j => ret[i].date >= ret[j].date
    /\ \A m \in I :
          CountIn(ret, transactions[m]) < CountAt(I, transactions[m]) =>
              \A i \in 1 .. Len(ret) : transactions[m].date <= ret[i].date

\* C18: list returns exactly the records that pass all the given filters (type
\* compared case-insensitively, category equal, start_date <= date <= end_date),
\* latest date first, cut to the first `limit` records of that order; no
\* returned record is earlier than a matching record that was cut off.
C18_ListFiltersSortsTruncates ==
    (call.op = "get_transactions" /\ call.args.limit_given) =>
        LatestOf(call.ret, ListMatching(call.args),
                 Min(call.args.limit, Cardinality(ListMatching(call.args))))

\* C18 happens: two records match, the later one is stored last, and the limit
\* cuts the earlier one off
C18_Witness ==
    /\ call.op = "get_transactions"
    /\ call.args.limit_given
    /\ call.args.limit = 1
    /\ Cardinality(ListMatching(call.args)) = 2
    /\ Len(transactions) = 2
    /\ transactions[1].date < transactions[2].date
    /\ call.ret = <<transactions[2]>>

\* C19 as stated: when the caller gives no limit, list returns every matching
\* record, however many the store holds.
C19_UnsetLimitReturnsAll ==
    (call.op = "get_transactions" /\ ~call.args.limit_given) =>
        Len(call.ret) = Cardinality(ListMatching(call.args))

\* C19 amended: when the caller gives no limit, list returns the 10 latest
\* matching records, which are all of them only when at most 10 match.
C19_UnsetLimitIsTen ==
    (call.op = "get_transactions" /\ ~call.args.limit_given) =>
        LatestOf(call.ret, ListMatching(call.args),
                 Min(10, Cardinality(ListMatching(call.args))))

\* C19 happens: eleven records match a call without limit and ten come back
C19_Witness ==
    /\ call.op = "get_transactions"
    /\ ~call.args.limit_given
    /\ Cardinality(ListMatching(call.args)) = 11
    /\ Len(call.ret) = 10

\* the calendar months that hold at least one stored transaction
MonthsPresent == {MonthOf(transactions[i].date) : i \in 1 .. Len(transactions)}

\* the stored records of a type dated in a month, by position
InMonth(type, m) ==
    {i \in 1 .. Len(transactions) :
        transactions[i].type = type /\ MonthOf(transactions[i].date) = m}

\* C20: monthly_trend(months) with months >= 1 returns one entry per calendar
\* month that holds a transaction, only the min(months, number of such months)
\* most recent ones, oldest first; every entry has an income and an expense
\* value, zero when the month has no record of that type, and
\* net = income - expense.
C20_MonthlyTrend ==
    (call.op = "get_monthly_trend" /\ call.args >= 1) =>
        /\ Len(call.ret) = Min(call.args, Cardinality(MonthsPresent))
        /\ \A i \in 1 .. Len(call.ret) :
              /\ call.ret[i].month.month \in MonthsPresent
              /\ \A m \in MonthsPresent :
                    m > call.ret[i].month.month =>
                        \E j \in 1 .. Len(call.ret) : call.ret[j].month.month = m
              /\ {"income", "expense", "net"} \subseteq DOMAIN call.ret[i]
              /\ call.ret[i].income = AmountOf(InMonth("income", call.ret[i].month.month))
              /\ call.ret[i].expense = AmountOf(InMonth("expense", call.ret[i].month.month))
              /\ call.ret[i].net = call.ret[i].income - call.ret[i].expense
        /\ \A i, j \in 1 .. Len(call.ret) :
              i < j => call.ret[i].month.month < call.ret[j].month.month

\* C20 happens: two months hold transactions, one month is asked for, and the
\* later one comes back with no income record in it
C20_Witness ==
    /\ call.op = "get_monthly_trend"
    /\ call.args = 1
    /\ Cardinality(MonthsPresent) = 2
    /\ Len(call.ret) = 1
    /\ call.ret[1].month.month = 2
    /\ InMonth("income", 2) = {}
    /\ call.ret[1].income = 0

\* the sum of a field of the returned holdings, in the order of the holdings
RECURSIVE SumOfHoldings(_, _)
SumOfHoldings(hs, f) ==
    IF hs = <<>> THEN Num(0)
    ELSE FAdd(SumOfHoldings(SubSeq(hs, 1, Len(hs) - 1), f), hs[Len(hs)][f])

\* C22: when portfolio_value returns, total_invested is the sum of the
\* holdings' total_cost, current_value the sum of their current_value,
\* total_gain_loss = current_value - total_invested, and
\* total_gain_loss_percent = total_gain_loss / total_invested * 100 when
\* total_invested > 0 and 0 otherwise.
C22_PortfolioTotals ==
    (call.op = "get_portfolio_value" /\ ~call.ret.raised) =>
        LET r == call.ret.ret
        IN  /\ r.total_invested = SumOfHoldings(r.holdings, "total_cost")
            /\ r.current_value = SumOfHoldings(r.holdings, "current_value")
            /\ r.total_gain_loss = FSub(r.current_value, r.total_invested)
            /\ r.total_gain_loss_percent
                 = IF r.total_invested.n > 0
                       THEN FMul(FDiv(r.total_gain_loss, r.total_invested), Num(100))
                   ELSE Num(0)

\* C22 happens: two holdings bought at different prices, both with positive
\* quantity, whose percentages differ from each other
C22_Witness ==
    /\ call.op = "get_portfolio_value"
    /\ ~call.ret.raised
    /\ Len(call.ret.ret.holdings) = 2
    /\ \A i \in 1 .. Len(investments) : investments[i].quantity > 0
    /\ call.ret.ret.holdings[1].gain_loss_percent # call.ret.ret.holdings[2].gain_loss_percent
    /\ call.ret.ret.total_invested.n > 0

\* the lots of a symbol, by position
LotsWithSymbol(symbol) ==
    {i \in 1 .. Len(investments) : investments[i].symbol = symbol}

RECURSIVE SumOfLots(_, _)
SumOfLots(I, f) ==
    IF I = {} THEN 0
    ELSE LET i == CHOOSE x \in I : TRUE
         IN  investments[i][f] + SumOfLots(I \ {i}, f)

\* C27: when portfolio_value returns, it holds exactly one holding per symbol
\* of the investment store, with quantity and total_cost the sums over the
\* symbol's lots, avg_purchase_price = total_cost / quantity,
\* gain_loss = quantity * current_price - total_cost, and
\* gain_loss_percent = gain_loss / total_cost * 100 when total_cost > 0 and 0
\* otherwise.
C27_OneHoldingPerSymbol ==
    (call.op = "get_portfolio_value" /\ ~call.ret.raised) =>
        LET hs == call.ret.ret.holdings
        IN  /\ {hs[i].symbol : i \in 1 .. Len(hs)}
                 = {investments[i].symbol : i \in 1 .. Len(investments)}
            /\ \A i, j \in 1 .. Len(hs) : hs[i].symbol = hs[j].symbol => i = j
            /\ \A i \in 1 .. Len(hs) :
                  LET q == Num(SumOfLots(LotsWithSymbol(hs[i].symbol), "quantity"))
                      c == Num(SumOfLots(LotsWithSymbol(hs[i].symbol), "total_cost"))
                  IN  /\ hs[i].quantity = q
                      /\ hs[i].total_cost = c
                      /\ hs[i].avg_purchase_price = FDiv(c, q)
                      /\ hs[i].gain_loss = FSub(FMul(q, hs[i].current_price), c)
                      /\ hs[i].gain_loss_percent
                           = IF c.n > 0 THEN FMul(FDiv(hs[i].gain_loss, c), Num(100))
                             ELSE Num(0)

\* C27 happens: two lots of one symbol, both of positive quantity, make one
\* holding
C27_Witness ==
    /\ call.op = "get_portfolio_value"
    /\ ~call.ret.raised
    /\ Len(investments) = 2
    /\ investments[1].symbol = investments[2].symbol
    /\ investments[1].quantity > 0 /\ investments[2].quantity > 0
    /\ Len(call.ret.ret.holdings) = 1
    /\ call.ret.ret.holdings[1].quantity = Num(4)

----------------------------------------------------------------------------
(* Claims about the frame of the queries (SpecQuery) *)

QueryOps ==
    {"get_transactions", "get_summary", "get_spending_by_category", "get_monthly_trend",
     "get_investments", "get_portfolio_value", "get_net_worth"}

\* C28: a step of get_transactions, get_summary, get_spending_by_category,
\* get_monthly_trend, get_investments, get_portfolio_value or get_net_worth
\* leaves the transaction store, the investment store and both files as they
\* were, for every argument and every answer of the price provider (an error
\* included).
C28_QueriesChangeNothing ==
    [][call'.op \in QueryOps => StoresUnchanged]_vars

\* a net worth has been computed over stores that both hold records, the
\* transactions not in descending date order
C28_Witness ==
    /\ call.op = "get_net_worth"
    /\ investments # <<>>
    /\ Len(transactions) >= 2
    /\ transactions[1].date < transactions[2].date
    /\ txFile.exists
    /\ invFile.exists

----------------------------------------------------------------------------
(* Claims about failing writes (SpecFault) *)

\* rows ends with one record more than old
Appended(old, rows) ==
    /\ Len(rows) = Len(old) + 1
    /\ SubSeq(rows, 1, Len(old)) = old

\* get_transactions asked without a filter and without a limit
Unfiltered == ListArg(NoStr, NoStr, NoDate, NoDate, FALSE, 0)

\* C25: an add_transaction whose write fails returns the error result "Error
\* adding transaction" and the store ends with the new record; the same holds of
\* the expense of an add_investment whose nested write fails; an add_investment
\* whose investments.csv write fails returns "Error adding investment", the
\* investment store ends with the new lot and the transaction store is as it
\* was.  Later queries answer from the stores in memory: get_investments returns
\* the investment store, and an unfiltered get_transactions within its limit
\* returns every record of the transaction store.
C25_FailedWriteKeepsRecord ==
    [][/\ (call'.op = "add_transaction" /\ call'.ret = "error_adding")
            => /\ Appended(transactions, transactions')
               /\ transactions'[Len(transactions')].category = call'.args.category
       /\ (call'.op = "add_investment" /\ call'.nested = "error_adding")
            => /\ Appended(transactions, transactions')
               /\ transactions'[Len(transactions')].category = "Investment Purchase"
               /\ Appended(investments, investments')
       /\ (call'.op = "add_investment" /\ call'.ret = "error_adding"
              /\ ~StrptimeFails(call'.args.purchase_date))
            => /\ Appended(investments, investments')
               /\ investments'[Len(investments')].symbol = UpperStrip(call'.args.symbol)
               /\ transactions' = transactions
       /\ (call'.op = "get_investments") => call'.ret = investments'
       /\ (call'.op = "get_transactions" /\ call'.args = Unfiltered
              /\ Len(transactions') <= DefaultLimit)
            => /\ Len(call'.ret) = Len(transactions')
               /\ \A i \in 1 .. Len(transactions') :
                      \E j \in 1 .. Len(call'.ret) : call'.ret[j] = transactions'[i]
      ]_vars

\* the listing shows two records of which transactions.csv holds at most one
C25_Witness ==
    /\ call.op = "get_transactions"
    /\ call.args = Unfiltered
    /\ Len(call.ret) = 2
    /\ Len(txFile.rows) < 2

\* the last row of rows, written to a file, is among the rows of the file
LastRowIn(rows, file) ==
    /\ rows # <<>>
    /\ \E i \in 1 .. Len(file.rows) : file.rows[i] = rows[Len(rows)]

\* C30: when add_investment returns its success result, the nested
\* add_transaction has reported success, investments.csv holds the new lot and
\* transactions.csv holds the linked expense.
C30_SuccessMeansBothWritten ==
    (call.op = "add_investment" /\ call.ret = "ok")
        => /\ call.nested = "ok"
           /\ LastRowIn(InvRows(investments), invFile)
           /\ LastRowIn(TxRows(transactions), txFile)

----------------------------------------------------------------------------
(* Claims about the files after a completed operation (SpecIO) *)

\* transactions.csv holds exactly the rows of the transaction store
TxFileHoldsStore == txFile.rows = TxRows(transactions)

\* investments.csv holds exactly the rows of the investment store
InvFileHoldsStore == invFile.rows = InvRows(investments)

\* the last operation changed a store and none of its writes failed
CompletedWithoutWriteFailure ==
    \/ call.op \in {"add_transaction", "delete_transaction", "delete_investment"}
          /\ call.ret = "ok"
    \/ call.op = "add_investment" /\ call.ret = "ok" /\ call.nested = "ok"

\* C29 as stated: after a mutating operation that completed without a write
\* failure, transactions.csv holds exactly the transaction store and
\* investments.csv holds exactly the investment store.
C29_BothFilesHoldStores ==
    CompletedWithoutWriteFailure => (TxFileHoldsStore /\ InvFileHoldsStore)

\* C29: after a mutating operation that completed without a write failure, each
\* file the operation writes holds exactly the rows of its store, whatever
\* the file held before: transactions.csv after add_transaction and
\* delete_transaction of an existing id, investments.csv after deletion by
\* symbol with a match, both files after add_investment.
C29_WrittenFilesHoldStores ==
    /\ (call.op \in {"add_transaction", "delete_transaction"} /\ call.ret = "ok")
          => TxFileHoldsStore
    /\ (call.op = "delete_investment" /\ call.ret = "ok") => InvFileHoldsStore
    /\ (call.op = "add_investment" /\ call.ret = "ok") => InvFileHoldsStore
    /\ (call.op = "add_investment" /\ call.ret = "ok" /\ call.nested = "ok")
          => TxFileHoldsStore

\* a deletion of an existing id has rewritten transactions.csv in full while
\* investments.csv, which it does not write, lacks a lot of the store
C29_Witness ==
    /\ call.op = "delete_transaction"
    /\ call.ret = "ok"
    /\ transactions # <<>>
    /\ TxFileHoldsStore
    /\ ~InvFileHoldsStore

----------------------------------------------------------------------------
(* Claims about loading (SpecLoad) *)

\* the date text is a date in one of the two forms the files may hold
Parseable(field) == field.kind \in {"ymd", "ymd_hms"}

\* the ids of the rows, in order
IdsOf(rows) == [i \in 1 .. Len(rows) |-> rows[i].id]

\* C26: a store constructed over a file is empty when the file is missing or
\* cannot be read as a table; otherwise it holds, in the file's order, exactly
\* the rows of the file whose date field is a date (in either accepted form),
\* and the rows whose date field is no date are dropped.
C26_LoadKeepsParseableRows ==
    LET TxParsed(r) == Parseable(r.date)
        InvParsed(r) == Parseable(r.purchase_date)
    IN  /\ (~txFile.exists \/ txFile = Unreadable) => transactions = <<>>
        /\ (~invFile.exists \/ invFile = Unreadable) => investments = <<>>
        /\ IdsOf(transactions) = IdsOf(SelectSeq(txFile.rows, TxParsed))
        /\ IdsOf(investments) = IdsOf(SelectSeq(invFile.rows, InvParsed))

----------------------------------------------------------------------------
(* Claims about the order of the steps of add_investment (SpecSteps) *)

\* the state is inside, or just after, an add_investment call
OfCall == "lot" \in DOMAIN call

LotInMemory == \E i \in 1 .. Len(investments) : investments[i] = call.lot
LotOnDisk == \E i \in 1 .. Len(invFile.rows) : invFile.rows[i] = InvRows(<<call.lot>>)[1]
ExpenseInMemory == \E i \in 1 .. Len(transactions) : transactions[i] = call.expense
ExpenseOnDisk == \E i \in 1 .. Len(txFile.rows) : txFile.rows[i] = TxRows(<<call.expense>>)[1]

\* C24: at every point of an add_investment call, at its return and after a
\* crash at any of its points: the linked expense is in the transaction store
\* only if the lot is in the investment store, and in transactions.csv only if
\* the lot is in investments.csv; until investments.csv has been written the
\* transaction store and transactions.csv are as they were before the call; a
\* crash after the write of investments.csv and before the expense is saved, or
\* a failed write of investments.csv, leaves the lot recorded without its
\* expense.
C24_LotBeforeExpense ==
    OfCall =>
        /\ ExpenseInMemory => LotInMemory
        /\ ExpenseOnDisk => LotOnDisk
        /\ (call.op = "add_investment_running") => LotInMemory
        /\ (call.op = "add_investment_running" /\ call.pc \in {"save_investments", "add_transaction"})
              => /\ transactions = call.before.transactions
                 /\ txFile = call.before.txFile
        /\ (call.op \in {"add_investment_running", "crash"}
               /\ call.pc \in {"add_transaction", "save_transactions"})
              => LotOnDisk
        /\ (call.op = "crash" /\ call.pc = "add_transaction")
              => (LotInMemory /\ LotOnDisk /\ ~ExpenseInMemory /\ ~ExpenseOnDisk)
        /\ (call.op = "add_investment" /\ call.ret = "error_adding")
              => (LotInMemory /\ ~ExpenseInMemory /\ ~ExpenseOnDisk)

\* the process crashed between the two writes of its second add_investment
\* call: the lot is in investments.csv and in the reloaded store, its expense
\* nowhere
C24_Witness ==
    /\ OfCall
    /\ call.op = "crash"
    /\ call.pc = "add_transaction"
    /\ call.lot.id = 2
    /\ LotOnDisk
    /\ LotInMemory
    /\ ~ExpenseOnDisk
    /\ ~ExpenseInMemory

----------------------------------------------------------------------------
(* Claims about deletion by symbol (Spec) *)

\* the lots that delete_investment(symbolArg) has to remove, by position
LotsOf(symbolArg) ==
    {i \in 1 .. Len(investments) : investments[i].symbol = UpperStrip(symbolArg)}

RECURSIVE WithoutLots(_, _)
WithoutLots(lots, I) ==
    IF lots = <<>> THEN <<>>
    ELSE WithoutLots(SubSeq(lots, 1, Len(lots) - 1), I)
           \o (IF Len(lots) \in I THEN <<>> ELSE <<lots[Len(lots)]>>)

\* C16: delete_investment removes every lot whose stored symbol is the trimmed,
\* upper-cased argument and no other lot, and reports the number of lots
\* removed; when none matches it reports none and the investment store and its
\* file are unchanged.
C16_DeleteBySymbol ==
    [][ call'.op = "delete_investment" =>
          /\ investments' = WithoutLots(investments, LotsOf(call'.args))
          /\ call'.removed_count = Cardinality(LotsOf(call'.args))
          /\ (LotsOf(call'.args) # {}) => call'.ret = "ok"
          /\ (LotsOf(call'.args) = {}) =>
                /\ call'.ret = "none_found"
                /\ UNCHANGED <<investments, invFile>> ]_vars

\* C16 happens: the argument needed trimming and upper-casing, lots were
\* removed and a lot of another symbol stays
C16_Witness ==
    /\ call.op = "delete_investment"
    /\ call.args = " aapl "
    /\ call.removed_count >= 1
    /\ investments # <<>>

\* C17: delete_investment leaves the transaction store and its file unchanged:
\* the "Investment Purchase" expenses of the deleted lots remain and the
\* summary net is the same before and after.
C17_DeleteKeepsExpenses ==
    [][ call'.op = "delete_investment" =>
          /\ UNCHANGED <<transactions, txFile>>
          /\ get_summary(transactions', NoDate, NoDate).net
               = get_summary(transactions, NoDate, NoDate).net ]_vars

\* C17 happens: the last lots were deleted and their purchase expenses are
\* still in the store and in the file
C17_Witness ==
    /\ call.op = "delete_investment"
    /\ call.removed_count >= 1
    /\ investments = <<>>
    /\ \E i \in 1 .. Len(transactions) : transactions[i].category = "Investment Purchase"
    /\ \E i \in 1 .. Len(txFile.rows) : txFile.rows[i].category = "Investment Purchase"

----------------------------------------------------------------------------
(* Claims about persistence (SpecReload) *)

\* both files hold what the last write of each store put there
FilesWritten ==
    /\ txFile.exists /\ Len(txFile.rows) = Len(transactions)
    /\ invFile.exists /\ Len(invFile.rows) = Len(investments)

\* C15: once the stores have been written, reloading them from the files
\* reproduces every transaction and every lot with all fields equal (dates are
\* whole days), also a transaction whose description is empty.
C15_RoundTrip ==
    [][ (reload /\ FilesWritten) =>
          (transactions' = transactions /\ investments' = investments) ]_vars

====
